---- MODULE Spec2Model ----
(***************************************************************************)
(* Model of shared_utils/prompt_chaining_utils.py: PromptChainManager with *)
(* its retrying sequential chain (execute_sequential_chain) and its        *)
(* thread-pool fan-out with synthesis (execute_parallel_chains).           *)
(*                                                                         *)
(* Texts are strings.  The text-generation callable is the chain           *)
(* prompt | llm | parser, invoked at lines 128, 248 and 306; it is the     *)
(* environment: one invocation either returns a text or raises.            *)
(* Wall-clock readings (time.time, datetime.now) are not modelled; the     *)
(* backoff sleeps are recorded with their length in milliseconds, and      *)
(* every other field the code builds is modelled.  max_retries             *)
(* is whatever the constructor was given, -1 included: nothing in the      *)
(* code rejects a negative value.                                          *)
(***************************************************************************)
EXTENDS Integers, Sequences, FiniteSets, TLC

\* ------------------------------------------------------------------ bounds
MaxSteps == 2       \* longest chain_steps list explored
MaxRetries == 2     \* largest max_retries explored (smallest is -1)
MaxTasks == 5       \* largest prompt_templates mapping explored
MaxRuns == 2        \* runs made on one manager when it is reused
DetMaxSteps == 3    \* longest chain_steps list run with the deterministic generator
DetMaxRetries == 1  \* largest max_retries with the deterministic generator
ReuseMaxSteps == 2  \* longest chain_steps list of a run on a reused manager
ReuseMaxRetries == 1  \* largest max_retries of a reused manager
MaxTaskIds == 3     \* task ids a TaskDecomposer is given
MaxDeps == 2        \* longest dependencies list of an added task

\* Line 278: the fixed cap on worker threads.
PoolCap == 4

\* Line 196: the base delay of the backoff, 0.5 s, in milliseconds.
BaseDelayMs == 500

VARIABLES
    \* PromptChainManager instance (__init__)
    max_retries, chain_history, execution_log, step_timings,
    \* execute_sequential_chain: arguments, locals, position, return value
    chain_steps, initial_input, current_input, results, i, retry_count,
    step_successful, error_msg, seq_pc, seq_outcome,
    \* the environment's record of the sequential generation calls and of
    \* the time.sleep calls
    gen_calls, attempts, sleeps,
    \* the outcomes the caller still holds from earlier runs on this manager
    earlier_outcomes,
    \* execute_parallel_chains: arguments, locals, position, return value
    prompt_templates, synthesis_template, max_workers, submitted,
    parallel_results, results_dict, successful_results, synthesis_input,
    synthesis_result, par_pc, par_outcome,
    \* the ThreadPoolExecutor: work queue, per-task state, futures
    work_queue, task_state, futures,
    \* the environment: how the generation chain answers each task's prompt,
    \* and its record of the task-level and synthesis-level calls
    task_behaviour, task_calls, synth_calls, synth_log,
    \* whether some task has finished while an earlier submitted one had not
    finished_out_of_order,
    \* content_pipeline: its position and what it gave its caller
    pipeline_pc, pipeline_outcome,
    \* TaskDecomposer instance: tasks (in registration order) and
    \* execution_order, and what the last method call gave its caller
    tasks, execution_order, order_outcome, validation_outcome

seqVars == << max_retries, chain_history, execution_log, step_timings,
              chain_steps, initial_input, current_input, results, i,
              retry_count, step_successful, error_msg, seq_pc, seq_outcome,
              gen_calls, attempts, sleeps, earlier_outcomes >>

parVars == << prompt_templates, synthesis_template, max_workers, submitted,
              parallel_results, results_dict, successful_results,
              synthesis_input, synthesis_result, par_pc, par_outcome,
              work_queue, task_state, futures, task_behaviour, task_calls,
              synth_calls, synth_log, finished_out_of_order >>

auxVars == << pipeline_pc, pipeline_outcome, tasks, execution_order,
              order_outcome, validation_outcome >>

vars == << seqVars, parVars, auxVars >>

\* ------------------------------------------------------------ environment
\* What one invocation of the generation chain can do.
GenTexts == {"a", "bb"}
GenErrors == {"timeout"}
GenOutcomes ==
    [kind : {"text"}, text : GenTexts, msg : {""}]
        \cup [kind : {"raise"}, text : {""}, msg : GenErrors]

\* Validator predicates a caller can supply: text -> bool, or raising.
\* The result is "pass", "fail" or "raise".
ApplyValidator(name, text) ==
    CASE name = "nonempty" -> IF Len(text) > 0 THEN "pass" ELSE "fail"
      [] name = "is_a"     -> IF text = "a" THEN "pass" ELSE "fail"
      [] name = "boom"     -> "raise"
      [] name = "always"   -> "pass"
      [] name = "always2"  -> "pass"
      [] OTHER             -> "pass"

\* str(e) of the exception a raising validator throws.
ValidatorRaiseMsg(name) == name \o " crashed"

\* Step dictionaries.  has_template: the "template" key is present;
\* template_ok: PromptTemplate.from_template accepts the template;
\* has_validators: the "validators" key is present (validators are its items
\* in order); validator: the "validator" entry, "" when absent or None.
StepPlain      == [has_template |-> TRUE, template |-> "T {input}", template_ok |-> TRUE,
                   has_validators |-> FALSE, validators |-> << >>,
                   validator |-> ""]
StepNoTemplate == [has_template |-> FALSE, template |-> "", template_ok |-> FALSE,
                   has_validators |-> FALSE, validators |-> << >>,
                   validator |-> ""]
StepValidators == [has_template |-> TRUE, template |-> "V {input}", template_ok |-> TRUE,
                   has_validators |-> TRUE,
                   validators |-> << "is_a", "nonempty" >>,
                   validator |-> ""]
StepValidator  == [has_template |-> TRUE, template |-> "D {input}", template_ok |-> TRUE,
                   has_validators |-> FALSE, validators |-> << >>,
                   validator |-> "is_a"]
StepRaising    == [has_template |-> TRUE, template |-> "R {input}", template_ok |-> TRUE,
                   has_validators |-> TRUE,
                   validators |-> << "nonempty", "boom" >>,
                   validator |-> ""]
StepBadTemplate == [has_template |-> TRUE, template |-> "{", template_ok |-> FALSE,
                   has_validators |-> FALSE, validators |-> << >>,
                   validator |-> ""]
StepConfigs == {StepPlain, StepNoTemplate, StepBadTemplate, StepValidators,
                StepValidator, StepRaising}

RECURSIVE SeqsUpTo(_, _)
SeqsUpTo(S, n) ==
    IF n = 0 THEN {<< >>}
    ELSE LET shorter == SeqsUpTo(S, n - 1)
         IN  shorter \cup {Append(s, x) : s \in {t \in shorter : Len(t) = n - 1}, x \in S}

InitialInputs == {"X"}

\* ----------------------------------------------- execute_sequential_chain
\* Lines 130-142: the validators run against the raw output, in order, and
\* the first one that returns false (or raises) ends the attempt.
RECURSIVE RunValidatorsDict(_, _, _, _, _)
RunValidatorsDict(names, k, text, stepno, acc) ==
    IF k > Len(names)
    THEN [ok |-> TRUE, validation_results |-> acc, error |-> "", ran |-> names]
    ELSE LET r == ApplyValidator(names[k], text) IN
         IF r = "raise"
         THEN [ok |-> FALSE, validation_results |-> acc,
               error |-> ValidatorRaiseMsg(names[k]), ran |-> SubSeq(names, 1, k)]
         ELSE LET acc2 == Append(acc, [validator |-> names[k], passed |-> (r = "pass")]) IN
              IF r = "fail"
              THEN [ok |-> FALSE, validation_results |-> acc2,
                    error |-> "Step " \o ToString(stepno) \o " failed "
                              \o names[k] \o " validation",
                    ran |-> SubSeq(names, 1, k)]
              ELSE RunValidatorsDict(names, k + 1, text, stepno, acc2)

\* Mutant: the verdicts are recorded, but a false verdict does not fail the
\* attempt.
RunValidators_IgnoreVerdict(step, text, stepno) ==
    LET names == IF step.has_validators THEN step.validators
                 ELSE IF step.validator # "" THEN << step.validator >>
                 ELSE << >>
    IN  [ok |-> TRUE,
         validation_results |->
            [n \in 1 .. Len(names) |->
                [validator |-> IF step.has_validators THEN names[n] ELSE "default",
                 passed |-> ApplyValidator(names[n], text) = "pass"]],
         error |-> "", ran |-> names]

\* Mutant: no validator is run and the output is accepted.
RunValidators_SkipAll(step, text, stepno) ==
    [ok |-> TRUE, validation_results |-> << >>, error |-> "", ran |-> << >>]

\* Lines 130-142; ran: the validators that were called, in call order.
RunValidators(step, text, stepno) ==
    IF step.has_validators
    THEN RunValidatorsDict(step.validators, 1, text, stepno, << >>)
    ELSE IF step.validator # ""
    THEN LET r == ApplyValidator(step.validator, text) IN
         IF r = "raise"
         THEN [ok |-> FALSE, validation_results |-> << >>,
               error |-> ValidatorRaiseMsg(step.validator),
               ran |-> << step.validator >>]
         ELSE IF r = "fail"
         THEN [ok |-> FALSE,
               validation_results |-> << [validator |-> "default", passed |-> FALSE] >>,
               error |-> "Step " \o ToString(stepno) \o " validation failed",
               ran |-> << step.validator >>]
         ELSE [ok |-> TRUE,
               validation_results |-> << [validator |-> "default", passed |-> TRUE] >>,
               error |-> "", ran |-> << step.validator >>]
    ELSE [ok |-> TRUE, validation_results |-> << >>, error |-> "", ran |-> << >>]

\* Lines 108-142: the try body of one attempt of step number stepno (1-based)
\* when the generation chain behaves as gen.  logged: the step_log entry was
\* appended (line 117 comes after the step["template"] lookup of line 112
\* and before the template is parsed at line 126); invoked: chain.invoke
\* (line 128) was reached; returned: it returned a text; ran: the validators
\* called on that text.
TryBody(step, stepno, gen) ==
    IF ~step.has_template
    THEN [ok |-> FALSE, logged |-> FALSE, invoked |-> FALSE, result |-> "",
          validation_results |-> << >>, error |-> "'template'",
          returned |-> FALSE, ran |-> << >>]
    ELSE IF ~step.template_ok
    THEN [ok |-> FALSE, logged |-> TRUE, invoked |-> FALSE, result |-> "",
          validation_results |-> << >>, error |-> "bad template",
          returned |-> FALSE, ran |-> << >>]
    ELSE IF gen.kind = "raise"
    THEN [ok |-> FALSE, logged |-> TRUE, invoked |-> TRUE, result |-> "",
          validation_results |-> << >>, error |-> gen.msg,
          returned |-> FALSE, ran |-> << >>]
    ELSE LET v == RunValidators(step, gen.text, stepno) IN
         [ok |-> v.ok, logged |-> TRUE, invoked |-> TRUE, result |-> gen.text,
          validation_results |-> v.validation_results, error |-> v.error,
          returned |-> TRUE, ran |-> v.ran]

\* Mutant: the loop bound is off by one.
WhileCondition_OffByOne == retry_count < max_retries /\ ~step_successful

\* Line 107: the while condition.
WhileCondition == retry_count <= max_retries /\ ~step_successful

\* Mutant: the executor gives up one attempt early.
RetriesExhausted_Early(rc) == rc >= max_retries

\* Line 172: after the increment, no retry is left.
RetriesExhausted(rc) == rc > max_retries

\* Mutant: the return of line 192 is missing.
PcAfterFailure_NoReturn(rc) == "while"

\* Lines 172-197: where the executor goes after a failed attempt: it returns
\* (line 192) once the retries are exhausted, else it loops.
PcAfterFailure(rc) == IF RetriesExhausted(rc) THEN "returned" ELSE "while"

\* Mutant: current_input is assigned before validation.
NextInput_RawOutput(t) ==
    IF t.invoked /\ t.result # "" THEN t.result ELSE current_input

\* Lines 159 and 165-167: only the success path assigns current_input.
NextInput(t) == IF t.ok THEN t.result ELSE current_input

\* Lines 110-117: the step_log entry.
StepLog == [step |-> i, template |-> chain_steps[i].template,
            input_preview |-> current_input, retry_attempt |-> retry_count]

\* Lines 148-155.
StepResult(stepno, t) ==
    [step |-> stepno, output |-> t.result,
     validation_results |-> t.validation_results,
     retry_count |-> retry_count, output_length |-> Len(t.result)]

\* Mutant: the message names the 0-based loop index.
ChainFailedMsg_ZeroBased(stepno, msg) ==
    "Chain failed at step " \o ToString(stepno - 1) \o " after "
        \o ToString(max_retries + 1) \o " attempts: " \o msg

\* Line 178.
ChainFailedMsg(stepno, msg) ==
    "Chain failed at step " \o ToString(stepno) \o " after "
        \o ToString(max_retries + 1) \o " attempts: " \o msg

\* Lines 46-57: get_summary (timings abstracted to the step numbers).
GetSummary(timings) == [total_steps |-> Len(timings), step_timings |-> timings]

NoOutcome == [returned |-> FALSE]

\* Lines 62-76: __init__.
ManagerInit ==
    /\ chain_history = << >>
    /\ execution_log = << >>
    /\ step_timings = << >>

SeqIdle ==
    /\ chain_steps = << >>
    /\ initial_input = ""
    /\ current_input = ""
    /\ results = << >>
    /\ i = 0
    /\ retry_count = 0
    /\ step_successful = FALSE
    /\ error_msg = ""
    /\ seq_pc = "idle"
    /\ seq_outcome = NoOutcome
    /\ gen_calls = << >>
    /\ attempts = << >>
    /\ sleeps = << >>
    /\ earlier_outcomes = << >>

\* Mutant: a run on a used manager goes on from where the last run ended.
InitialCurrentInput_CarriedOver(input) ==
    IF current_input # "" THEN current_input ELSE input

\* Line 96: current_input = initial_input, at every call.
InitialCurrentInput(input) == input

\* Lines 83-100: the call, with its arguments.
ExecuteSequentialChain ==
    /\ seq_pc = "idle"
    /\ \E steps \in SeqsUpTo(StepConfigs, MaxSteps), input \in InitialInputs :
          /\ chain_steps' = steps
          /\ initial_input' = input
          /\ current_input' = InitialCurrentInput(input)
    /\ results' = << >>
    /\ i' = 1
    /\ seq_pc' = "for"
    /\ UNCHANGED << max_retries, earlier_outcomes, chain_history, execution_log, step_timings,
                    retry_count, step_successful, error_msg, seq_outcome,
                    gen_calls, attempts, sleeps >>
    /\ UNCHANGED parVars
    /\ UNCHANGED auxVars

\* Lines 102-105: the for loop takes the next step.
ForNextStep ==
    /\ seq_pc = "for"
    /\ i <= Len(chain_steps)
    /\ retry_count' = 0
    /\ step_successful' = FALSE
    /\ seq_pc' = "while"
    /\ UNCHANGED << max_retries, earlier_outcomes, chain_history, execution_log, step_timings,
                    chain_steps, initial_input, current_input, results, i,
                    error_msg, seq_outcome, gen_calls, attempts, sleeps >>
    /\ UNCHANGED parVars
    /\ UNCHANGED auxVars

\* Line 107 false: the while loop ends and the for loop advances.
WhileExit ==
    /\ seq_pc = "while"
    /\ ~WhileCondition
    /\ i' = i + 1
    /\ seq_pc' = "for"
    /\ UNCHANGED << max_retries, earlier_outcomes, chain_history, execution_log, step_timings,
                    chain_steps, initial_input, current_input, results,
                    retry_count, step_successful, error_msg, seq_outcome,
                    gen_calls, attempts, sleeps >>
    /\ UNCHANGED parVars
    /\ UNCHANGED auxVars

\* What every attempt does whatever its outcome: the history entry (line
\* 117), the generation call (line 128) and the input of the next attempt.
AttemptEffects(t) ==
    /\ chain_history' = IF t.logged THEN Append(chain_history, StepLog)
                        ELSE chain_history
    /\ gen_calls' = IF t.invoked
                    THEN Append(gen_calls, [step |-> i, input |-> current_input])
                    ELSE gen_calls
    /\ attempts' = Append(attempts, [step |-> i, ok |-> t.ok, invoked |-> t.invoked,
                                     input |-> current_input, error |-> t.error,
                                     returned |-> t.returned, output |-> t.result,
                                     ran |-> t.ran])
    /\ current_input' = NextInput(t)

\* Lines 108-163: an attempt that succeeds.
AttemptSucceedsWith(gen) ==
    /\ seq_pc = "while"
    /\ WhileCondition
    /\ LET t == TryBody(chain_steps[i], i, gen) IN
         /\ t.ok
         /\ AttemptEffects(t)
         /\ step_timings' = Append(step_timings, i)
         /\ results' = Append(results, StepResult(i, t))
         /\ step_successful' = TRUE
    /\ UNCHANGED << max_retries, earlier_outcomes, execution_log, chain_steps, initial_input, i,
                    retry_count, error_msg, seq_pc, seq_outcome, sleeps >>
    /\ UNCHANGED parVars
    /\ UNCHANGED auxVars

\* an attempt that succeeds, whatever the generation call does.
AttemptSucceeds == \E gen \in GenOutcomes : AttemptSucceedsWith(gen)

\* Mutant: an exception of the generation call uses up two attempts.
RetryCountAfterFailure_RaiseCountsTwice(t) ==
    IF t.invoked /\ ~t.returned THEN retry_count + 2 ELSE retry_count + 1

\* Lines 165-166: every exception caught, whatever raised it, adds one to
\* retry_count.
RetryCountAfterFailure(t) == retry_count + 1

\* Mutant: the exponent is the number of failed attempts, not one less.
BackoffWait_OneTooMany(rc) == BaseDelayMs * 2 ^ rc

\* Line 196: wait_time = 0.5 * (2 ** (retry_count - 1)), in milliseconds; rc
\* is retry_count after the increment of line 166.
BackoffWait(rc) == BaseDelayMs * 2 ^ (rc - 1)

\* Lines 165-170 and 194-197: an attempt that fails with a retry left; the
\* executor sleeps and loops.
AttemptFailsRetryWith(gen) ==
    /\ seq_pc = "while"
    /\ WhileCondition
    /\ LET t == TryBody(chain_steps[i], i, gen) IN
         /\ ~t.ok
         /\ PcAfterFailure(RetryCountAfterFailure(t)) = "while"
         /\ AttemptEffects(t)
         /\ retry_count' = RetryCountAfterFailure(t)
         /\ error_msg' = t.error
         /\ sleeps' = Append(sleeps, [step |-> i,
                                      after_attempt |-> RetryCountAfterFailure(t),
                                      ms |-> BackoffWait(RetryCountAfterFailure(t))])
    /\ UNCHANGED << max_retries, earlier_outcomes, execution_log, step_timings, chain_steps,
                    initial_input, results, i, step_successful, seq_pc,
                    seq_outcome >>
    /\ UNCHANGED parVars
    /\ UNCHANGED auxVars

\* an attempt that fails with a retry left, whatever the generation call does.
AttemptFailsRetry == \E gen \in GenOutcomes : AttemptFailsRetryWith(gen)

\* Lines 176-182: the failure outcome.
ErrorResult(stepno, msg, hist) ==
    [returned |-> TRUE,
     keys |-> {"success", "error", "partial_results", "execution_history",
               "performance_metrics"},
     success |-> FALSE,
     error |-> ChainFailedMsg(stepno, msg),
     results |-> results,
     final_output |-> "",
     execution_history |-> hist,
     performance_metrics |-> GetSummary(step_timings)]

\* Lines 165-192: the attempt that exhausts the retries; the run returns.
AttemptFailsFinalWith(gen) ==
    /\ seq_pc = "while"
    /\ WhileCondition
    /\ LET t == TryBody(chain_steps[i], i, gen) IN
         /\ ~t.ok
         /\ PcAfterFailure(RetryCountAfterFailure(t)) = "returned"
         /\ AttemptEffects(t)
         /\ retry_count' = RetryCountAfterFailure(t)
         /\ error_msg' = t.error
         /\ seq_outcome' = ErrorResult(i, t.error, chain_history')
         /\ execution_log' = Append(execution_log,
                [status |-> "failed", error |-> t.error, step |-> i,
                 total_retries |-> retry_count])
    /\ seq_pc' = "returned"
    /\ UNCHANGED << max_retries, earlier_outcomes, step_timings, chain_steps, initial_input,
                    results, i, step_successful, sleeps >>
    /\ UNCHANGED parVars
    /\ UNCHANGED auxVars

\* the attempt that exhausts the retries, whatever the generation call does.
AttemptFailsFinal == \E gen \in GenOutcomes : AttemptFailsFinalWith(gen)

\* Mutant: final_output is left empty.
SuccessResult_NoFinalOutput ==
    [returned |-> TRUE,
     keys |-> {"success", "results", "final_output", "execution_history",
               "performance_metrics", "execution_log"},
     success |-> TRUE,
     error |-> "",
     results |-> results,
     final_output |-> "",
     execution_history |-> chain_history,
     performance_metrics |-> GetSummary(step_timings),
     execution_log |-> Append(execution_log,
            [status |-> "success", steps_completed |-> Len(chain_steps)])]

\* Lines 212-219: the success outcome.
SuccessResult ==
    [returned |-> TRUE,
     keys |-> {"success", "results", "final_output", "execution_history",
               "performance_metrics", "execution_log"},
     success |-> TRUE,
     error |-> "",
     results |-> results,
     final_output |-> current_input,
     execution_history |-> chain_history,
     performance_metrics |-> GetSummary(step_timings),
     execution_log |-> Append(execution_log,
            [status |-> "success", steps_completed |-> Len(chain_steps)])]

\* Lines 199-219: the for loop is exhausted; the run returns success.
ReturnSuccess ==
    /\ seq_pc = "for"
    /\ i > Len(chain_steps)
    /\ execution_log' = Append(execution_log,
            [status |-> "success", steps_completed |-> Len(chain_steps)])
    /\ seq_outcome' = SuccessResult
    /\ seq_pc' = "returned"
    /\ UNCHANGED << max_retries, earlier_outcomes, chain_history, step_timings, chain_steps,
                    initial_input, current_input, results, i, retry_count,
                    step_successful, error_msg, gen_calls, attempts, sleeps >>
    /\ UNCHANGED parVars
    /\ UNCHANGED auxVars

\* ------------------------------------------------ execute_parallel_chains
\* Line 62: the constructor's default max_retries.
DefaultMaxRetries == 3

\* None, as the value of synthesis_template and of synthesis_result.
None == "<None>"

\* Python truthiness of an Optional[str] (line 292).
Truthy(s) == s # None /\ s # ""

SynthesisTemplates ==
    {None, "", "Combine {analysis_results} for {original_document}"}

document == "DOC"

TaskName(k) == "t" \o ToString(k)

\* str.upper on a task name (line 302).
Upper(name) ==
    IF \E k \in 1 .. MaxTasks + 1 : name = TaskName(k)
    THEN "T" \o ToString(CHOOSE k \in 1 .. MaxTasks + 1 : name = TaskName(k))
    ELSE name

\* How a task's run can go: the generation call returns ("ok") or raises
\* ("raise"), or PromptTemplate.from_template rejects the task's template
\* before any call is made ("reject").
TaskBehaviours == {"ok", "raise", "reject"}

\* The caller's mapping, as its items in insertion order; b[k] = "reject"
\* marks a template that PromptTemplate.from_template does not accept.
TaskMapping(n, b) ==
    [k \in 1 .. n |-> [name |-> TaskName(k),
                       template |-> IF b[k] = "reject" THEN "{"
                                    ELSE TaskName(k) \o ": {document}"]]

Names(mapping) == {mapping[k].name : k \in 1 .. Len(mapping)}

\* What the generation chain returns or raises for a task's prompt.
TaskText(name) == "out-" \o name
TaskError(name) == "boom-" \o name
TemplateError == "bad template"

\* Lines 236-275: run_single_prompt, given how the generation call behaves.
RunSinglePrompt(prompt_name, behaviour) ==
    IF behaviour = "ok"
    THEN [name |-> prompt_name, result |-> TaskText(prompt_name),
          success |-> TRUE, output_length |-> Len(TaskText(prompt_name)),
          error |-> None]
    ELSE LET msg == IF behaviour = "reject" THEN TemplateError
                    ELSE TaskError(prompt_name)
         IN  [name |-> prompt_name, result |-> "Error: " \o msg,
              success |-> FALSE, output_length |-> 0, error |-> msg]

\* Mutant: a failed generation call is made a second time.
CallsMade_RetryOnce(behaviour) ==
    IF behaviour = "reject" THEN 0 ELSE IF behaviour = "raise" THEN 2 ELSE 1

\* Lines 246-248: chain.invoke is reached once, unless building the prompt
\* raised first.
CallsMade(behaviour) == IF behaviour = "reject" THEN 0 ELSE 1

\* Line 278.
MaxWorkers(n) == IF n < PoolCap THEN n ELSE PoolCap

\* A future that has no result yet.
Pending == [done |-> FALSE, value |-> [name |-> "", result |-> "",
            success |-> FALSE, output_length |-> 0, error |-> None]]

ParIdle ==
    /\ prompt_templates = << >>
    /\ synthesis_template = None
    /\ max_workers = 0
    /\ submitted = 0
    /\ parallel_results = << >>
    /\ results_dict = << >>
    /\ successful_results = << >>
    /\ synthesis_input = ""
    /\ synthesis_result = None
    /\ par_pc = "idle"
    /\ par_outcome = NoOutcome
    /\ work_queue = << >>
    /\ task_state = << >>
    /\ futures = << >>
    /\ task_behaviour = << >>
    /\ task_calls = << >>
    /\ synth_calls = 0
    /\ synth_log = << >>
    /\ finished_out_of_order = FALSE

\* Lines 221-234 and 278: the call, with its arguments.
ExecuteParallelChains ==
    /\ par_pc = "idle"
    /\ \E n \in 0 .. MaxTasks, st \in SynthesisTemplates :
          /\ synthesis_template' = st
          /\ max_workers' = MaxWorkers(n)
          /\ task_state' = [k \in 1 .. n |-> "new"]
          /\ futures' = [k \in 1 .. n |-> Pending]
          /\ task_calls' = [k \in 1 .. n |-> 0]
          /\ \E b \in [1 .. n -> TaskBehaviours] :
                /\ task_behaviour' = b
                /\ prompt_templates' = TaskMapping(n, b)
    /\ par_pc' = "pool"
    /\ UNCHANGED << submitted, parallel_results, results_dict,
                    successful_results, synthesis_input, synthesis_result,
                    par_outcome, work_queue, synth_calls, synth_log,
                    finished_out_of_order >>
    /\ UNCHANGED seqVars
    /\ UNCHANGED auxVars

\* Line 279: ThreadPoolExecutor(max_workers=...) with a positive count.
CreatePool ==
    /\ par_pc = "pool"
    /\ max_workers > 0
    /\ par_pc' = "submit"
    /\ UNCHANGED << prompt_templates, synthesis_template, max_workers,
                    submitted, parallel_results, results_dict,
                    successful_results, synthesis_input, synthesis_result,
                    par_outcome, work_queue, task_state, futures,
                    task_behaviour, task_calls, synth_calls, synth_log,
                    finished_out_of_order >>
    /\ UNCHANGED seqVars
    /\ UNCHANGED auxVars

\* Line 279: ThreadPoolExecutor raises ValueError for max_workers <= 0; the
\* exception leaves execute_parallel_chains.
CreatePoolRaises ==
    /\ par_pc = "pool"
    /\ max_workers <= 0
    /\ par_pc' = "raised"
    /\ UNCHANGED << prompt_templates, synthesis_template, max_workers,
                    submitted, parallel_results, results_dict,
                    successful_results, synthesis_input, synthesis_result,
                    par_outcome, work_queue, task_state, futures,
                    task_behaviour, task_calls, synth_calls, synth_log,
                    finished_out_of_order >>
    /\ UNCHANGED seqVars
    /\ UNCHANGED auxVars

\* Mutant: the pool refuses a work item when every worker is busy.
QueueAfterSubmit_RejectWhenBusy(k) ==
    IF Cardinality({j \in 1 .. Len(task_state) : task_state[j] = "running"})
           + Len(work_queue) >= max_workers
    THEN work_queue
    ELSE Append(work_queue, k)

\* Line 281: executor.submit puts the work item on the pool's queue, which
\* has no size limit.
QueueAfterSubmit(k) == Append(work_queue, k)

\* Lines 280-283: executor.submit of the next item of the mapping.
Submit ==
    /\ par_pc = "submit"
    /\ submitted < Len(prompt_templates)
    /\ submitted' = submitted + 1
    /\ work_queue' = QueueAfterSubmit(submitted + 1)
    /\ task_state' = [task_state EXCEPT ![submitted + 1] = "queued"]
    /\ par_pc' = IF submitted + 1 = Len(prompt_templates) THEN "collect" ELSE "submit"
    /\ UNCHANGED << prompt_templates, synthesis_template, max_workers,
                    parallel_results, results_dict, successful_results,
                    synthesis_input, synthesis_result, par_outcome, futures,
                    task_behaviour, task_calls, synth_calls, synth_log,
                    finished_out_of_order >>
    /\ UNCHANGED seqVars
    /\ UNCHANGED auxVars

Running == {k \in 1 .. Len(task_state) : task_state[k] = "running"}

\* Mutant: the pool starts a work item whether or not a worker is free.
WorkerFree_Unbounded == TRUE

\* A worker thread is free to take the next work item.
WorkerFree == Cardinality(Running) < max_workers

\* Lines 236-247: a free worker takes the oldest queued task and starts
\* run_single_prompt.
WorkerStart(k) ==
    /\ work_queue # << >>
    /\ k = Head(work_queue)
    /\ task_state[k] = "queued"
    /\ WorkerFree
    /\ work_queue' = Tail(work_queue)
    /\ task_state' = [task_state EXCEPT ![k] = "running"]
    /\ UNCHANGED << prompt_templates, synthesis_template, max_workers,
                    submitted, parallel_results, results_dict,
                    successful_results, synthesis_input, synthesis_result,
                    par_pc, par_outcome, futures, task_behaviour, task_calls,
                    synth_calls, synth_log,
                    finished_out_of_order >>
    /\ UNCHANGED seqVars
    /\ UNCHANGED auxVars

\* Mutant: a failed task cancels the work items not yet started.
StateAfterFinish_AbortSiblings(k, value) ==
    [j \in DOMAIN task_state |->
        IF j = k THEN "done"
        ELSE IF ~value.success /\ task_state[j] \in {"new", "queued"} THEN "cancelled"
        ELSE task_state[j]]

\* What a task's failure does to the other tasks' work items: nothing.
StateAfterFinish(k, value) == [task_state EXCEPT ![k] = "done"]

\* Mutant: the workers write their result into one slot they all share.
FuturesAfterFinish_SharedSlot(k, value) ==
    [j \in DOMAIN futures |-> [done |-> TRUE, value |-> value]]

\* Lines 255-275 and 281: the dictionary run_single_prompt returns is created
\* by that call and becomes the result of the task's own future.
FuturesAfterFinish(k, value) ==
    [futures EXCEPT ![k] = [done |-> TRUE, value |-> value]]

\* Lines 248-275: the generation call returns or raises, run_single_prompt
\* returns and the future gets its result.
WorkerFinish(k) ==
    /\ k \in Running
    /\ LET value == RunSinglePrompt(prompt_templates[k].name, task_behaviour[k]) IN
         /\ futures' = FuturesAfterFinish(k, value)
         /\ task_state' = StateAfterFinish(k, value)
    /\ task_calls' = [task_calls EXCEPT ![k] = @ + CallsMade(task_behaviour[k])]
    /\ finished_out_of_order' =
          (finished_out_of_order \/ \E j \in 1 .. k - 1 : task_state[j] # "done")
    /\ UNCHANGED << prompt_templates, synthesis_template, max_workers,
                    submitted, parallel_results, results_dict,
                    successful_results, synthesis_input, synthesis_result,
                    par_pc, par_outcome, work_queue, task_behaviour,
                    synth_calls, synth_log >>
    /\ UNCHANGED seqVars
    /\ UNCHANGED auxVars

\* Mutant: the result is read without waiting for the future.
FutureResultReady_NoWait(k) == TRUE

\* Line 284: future.result() blocks until the future is done.
FutureResultReady(k) == futures[k].done

\* Mutant: the results are taken as the futures complete.
NextToCollect_AsCompleted ==
    LET collected == {parallel_results[j].name : j \in 1 .. Len(parallel_results)}
        ready == {k \in 1 .. Len(futures) :
                     futures[k].done /\ prompt_templates[k].name \notin collected}
    IN  IF ready = {} THEN Len(parallel_results) + 1
        ELSE CHOOSE k \in ready : \A j \in ready : j <= k

\* Line 284: the comprehension walks the futures list in submission order.
NextToCollect == Len(parallel_results) + 1

\* Line 284: the next future's result is appended to parallel_results.
Collect ==
    /\ par_pc = "collect"
    /\ LET k == NextToCollect IN
         /\ FutureResultReady(k)
         /\ parallel_results' = Append(parallel_results, futures[k].value)
         /\ par_pc' = IF Len(parallel_results) + 1 = Len(prompt_templates)
                      THEN "shutdown" ELSE "collect"
    /\ UNCHANGED << prompt_templates, synthesis_template, max_workers,
                    submitted, results_dict, successful_results,
                    synthesis_input, synthesis_result, par_outcome,
                    work_queue, task_state, futures, task_behaviour,
                    task_calls, synth_calls, synth_log,
                    finished_out_of_order >>
    /\ UNCHANGED seqVars
    /\ UNCHANGED auxVars

\* Line 279: leaving the with block calls shutdown(wait=True), which joins
\* the worker threads.
WorkersJoined ==
    \A k \in 1 .. Len(task_state) : task_state[k] \notin {"queued", "running"}

ExitPool ==
    /\ par_pc = "shutdown"
    /\ WorkersJoined
    /\ par_pc' = "organize"
    /\ UNCHANGED << prompt_templates, synthesis_template, max_workers,
                    submitted, parallel_results, results_dict,
                    successful_results, synthesis_input, synthesis_result,
                    par_outcome, work_queue, task_state, futures,
                    task_behaviour, task_calls, synth_calls, synth_log,
                    finished_out_of_order >>
    /\ UNCHANGED seqVars
    /\ UNCHANGED auxVars

IsSuccess(r) == r.success

\* Mutant: the mapping is built from the successful entries only.
ResultsDict_SuccessfulOnly(rs) ==
    LET ok == SelectSeq(rs, IsSuccess) IN
    [nm \in {ok[k].name : k \in 1 .. Len(ok)} |->
        LET last == CHOOSE k \in 1 .. Len(ok) :
                        /\ ok[k].name = nm
                        /\ \A j \in 1 .. Len(ok) : ok[j].name = nm => j <= k
        IN  ok[last].result]

\* Line 287: {r["name"]: r["result"] for r in parallel_results}; a later
\* entry of the same name replaces an earlier one.
ResultsDict(rs) ==
    [nm \in {rs[k].name : k \in 1 .. Len(rs)} |->
        LET last == CHOOSE k \in 1 .. Len(rs) :
                        /\ rs[k].name = nm
                        /\ \A j \in 1 .. Len(rs) : rs[j].name = nm => j <= k
        IN  rs[last].result]

\* Mutant: failed entries are kept among the successful ones.
SuccessfulResults_All(rs) == rs

\* Line 288: the successful entries, in the order of parallel_results.
SuccessfulResults(rs) == SelectSeq(rs, IsSuccess)

\* Line 292.
ShouldSynthesize(template, successful) ==
    Truthy(template) /\ Len(successful) > 0

\* Lines 301-304.
RECURSIVE SynthesisInput(_)
SynthesisInput(successful) ==
    IF successful = << >> THEN ""
    ELSE LET piece == Upper(successful[1].name) \o ":\n" \o successful[1].result
         IN  IF Len(successful) = 1 THEN piece
             ELSE piece \o "\n\n" \o SynthesisInput(Tail(successful))

\* Lines 286-292: the result mappings and the decision to synthesize.
Organize ==
    /\ par_pc = "organize"
    /\ results_dict' = ResultsDict(parallel_results)
    /\ successful_results' = SuccessfulResults(parallel_results)
    /\ par_pc' = IF ShouldSynthesize(synthesis_template,
                                     SuccessfulResults(parallel_results))
                 THEN "synthesis" ELSE "return"
    /\ UNCHANGED << prompt_templates, synthesis_template, max_workers,
                    submitted, parallel_results, synthesis_input,
                    synthesis_result, par_outcome, work_queue, task_state,
                    futures, task_behaviour, task_calls, synth_calls, synth_log,
                    finished_out_of_order >>
    /\ UNCHANGED seqVars
    /\ UNCHANGED auxVars

SynthesisOutcomes ==
    {[kind |-> "text", text |-> "SYNTHESIS", msg |-> ""],
     [kind |-> "raise", text |-> "", msg |-> "overloaded"]}

\* Mutant: the exception of the synthesis call is swallowed.
SynthesisResult_Swallowed(gen) == IF gen.kind = "text" THEN gen.text ELSE None

\* Lines 306-315: the synthesis text, or the message of the except branch.
SynthesisResult(gen) ==
    IF gen.kind = "text" THEN gen.text ELSE "Synthesis failed: " \o gen.msg

\* Lines 293-317: the synthesis call; its exception is caught.
Synthesize ==
    /\ par_pc = "synthesis"
    /\ synthesis_input' = SynthesisInput(successful_results)
    /\ synth_calls' = synth_calls + 1
    /\ \E gen \in SynthesisOutcomes :
         /\ synthesis_result' = SynthesisResult(gen)
         /\ synth_log' = Append(synth_log,
                [analysis_results |-> SynthesisInput(successful_results),
                 original_document |-> document, kind |-> gen.kind])
    /\ par_pc' = "return"
    /\ UNCHANGED << prompt_templates, synthesis_template, max_workers,
                    submitted, parallel_results, results_dict,
                    successful_results, par_outcome, work_queue, task_state,
                    futures, task_behaviour, task_calls, finished_out_of_order >>
    /\ UNCHANGED seqVars
    /\ UNCHANGED auxVars

\* Mutant: failed_count counts every collected entry.
ParallelOutcome_FailedIsTotal ==
    [returned |-> TRUE,
     success |-> TRUE,
     parallel_results |-> results_dict,
     successful_count |-> Len(successful_results),
     failed_count |-> Len(parallel_results),
     synthesis |-> synthesis_result,
     execution_details |-> parallel_results,
     max_workers_used |-> max_workers]

\* Mutant: success reports whether any task succeeded.
ParallelOutcome_SuccessIfAny ==
    [returned |-> TRUE,
     success |-> Len(successful_results) > 0,
     parallel_results |-> results_dict,
     successful_count |-> Len(successful_results),
     failed_count |-> Len(parallel_results) - Len(successful_results),
     synthesis |-> synthesis_result,
     execution_details |-> parallel_results,
     max_workers_used |-> max_workers]

\* Lines 322-338: the result package.
ParallelOutcome ==
    [returned |-> TRUE,
     success |-> TRUE,
     parallel_results |-> results_dict,
     successful_count |-> Len(successful_results),
     failed_count |-> Len(parallel_results) - Len(successful_results),
     synthesis |-> synthesis_result,
     execution_details |-> parallel_results,
     max_workers_used |-> max_workers]

\* Lines 319-338: the return.
ReturnParallel ==
    /\ par_pc = "return"
    /\ par_outcome' = ParallelOutcome
    /\ par_pc' = "returned"
    /\ UNCHANGED << prompt_templates, synthesis_template, max_workers,
                    submitted, parallel_results, results_dict,
                    successful_results, synthesis_input, synthesis_result,
                    work_queue, task_state, futures, task_behaviour,
                    task_calls, synth_calls, synth_log,
                    finished_out_of_order >>
    /\ UNCHANGED seqVars
    /\ UNCHANGED auxVars


\* content_pipeline has not been called, and the TaskDecomposer is as its
\* __init__ (task_decomposer.py lines 40-42) leaves it.
AuxIdle ==
    /\ pipeline_pc = "idle"
    /\ pipeline_outcome = NoOutcome
    /\ tasks = << >>
    /\ execution_order = << >>
    /\ order_outcome = NoOutcome
    /\ validation_outcome = NoOutcome

SeqInit ==
    /\ max_retries \in -1 .. MaxRetries
    /\ ManagerInit
    /\ SeqIdle
    /\ ParIdle
    /\ AuxIdle

SeqNext ==
    \/ ExecuteSequentialChain
    \/ ForNextStep
    \/ WhileExit
    \/ AttemptSucceeds
    \/ AttemptFailsRetry
    \/ AttemptFailsFinal
    \/ ReturnSuccess

SeqSpec == SeqInit /\ [][SeqNext]_vars

ParInit ==
    /\ max_retries = DefaultMaxRetries
    /\ ManagerInit
    /\ SeqIdle
    /\ ParIdle
    /\ AuxIdle

ParNext ==
    \/ ExecuteParallelChains
    \/ CreatePool
    \/ CreatePoolRaises
    \/ Submit
    \/ \E k \in 1 .. Len(prompt_templates) : WorkerStart(k)
    \/ \E k \in 1 .. Len(prompt_templates) : WorkerFinish(k)
    \/ Collect
    \/ ExitPool
    \/ Organize
    \/ Synthesize
    \/ ReturnParallel

ParSpec == ParInit /\ [][ParNext]_vars

\* A step of a run that has started: of the calling thread, or of a worker
\* taking a work item or finishing its generation call.
ParProgress ==
    \/ CreatePool \/ CreatePoolRaises \/ Submit \/ Collect \/ ExitPool
    \/ Organize \/ Synthesize \/ ReturnParallel
    \/ \E k \in 1 .. Len(prompt_templates) : WorkerStart(k)
    \/ \E k \in 1 .. Len(prompt_templates) : WorkerFinish(k)

\* The scheduling the claim about termination assumes: the threads of a run
\* are not all suspended for ever while one of them can take a step, which
\* includes that a generation call in progress returns or raises.
ParFairness == WF_vars(ParProgress)

ParFairSpec == ParSpec /\ ParFairness

\* --------------------------------------------- one manager, several runs
\* The step dictionaries used when a manager is reused.
ReuseStepConfigs == {StepPlain, StepValidator}

\* Lines 83-100 on a manager that may have run before: the caller keeps the
\* outcome of the run that just returned and calls execute_sequential_chain
\* again.  __init__ is not run again, and nothing in the method resets
\* self.chain_history, self.execution_log or the step_timings of
\* self.performance_metrics.  The record of the environment starts afresh,
\* so that it describes the new run only.
ExecuteSequentialChainAgain ==
    /\ seq_pc \in {"idle", "returned"}
    /\ Len(earlier_outcomes) + (IF seq_pc = "returned" THEN 1 ELSE 0) < MaxRuns
    /\ earlier_outcomes' = IF seq_pc = "returned"
                           THEN Append(earlier_outcomes, seq_outcome)
                           ELSE earlier_outcomes
    /\ \E steps \in SeqsUpTo(ReuseStepConfigs, ReuseMaxSteps),
          input \in InitialInputs :
          /\ chain_steps' = steps
          /\ initial_input' = input
          /\ current_input' = InitialCurrentInput(input)
    /\ results' = << >>
    /\ i' = 1
    /\ seq_pc' = "for"
    /\ seq_outcome' = NoOutcome
    /\ gen_calls' = << >>
    /\ attempts' = << >>
    /\ sleeps' = << >>
    /\ UNCHANGED << max_retries, chain_history, execution_log, step_timings,
                    retry_count, step_successful, error_msg >>
    /\ UNCHANGED parVars
    /\ UNCHANGED auxVars

\* Lines 180-181 and 216-218: the outcome dictionary holds
\* self.chain_history, self.execution_log (success only) and the
\* step_timings list of self.performance_metrics themselves, not copies;
\* what the holder of an outcome reads through it now is the current
\* content of those lists.  total_steps is a number computed at the return.
CurrentView(o) ==
    IF o.success
    THEN [o EXCEPT !.execution_history = chain_history,
                   !.performance_metrics.step_timings = step_timings,
                   !.execution_log = execution_log]
    ELSE [o EXCEPT !.execution_history = chain_history,
                   !.performance_metrics.step_timings = step_timings]

ReuseInit ==
    /\ max_retries \in 0 .. ReuseMaxRetries
    /\ ManagerInit
    /\ SeqIdle
    /\ ParIdle
    /\ AuxIdle

ReuseNext ==
    \/ ExecuteSequentialChainAgain
    \/ ForNextStep
    \/ WhileExit
    \/ AttemptSucceeds
    \/ AttemptFailsRetry
    \/ AttemptFailsFinal
    \/ ReturnSuccess

ReuseSpec == ReuseInit /\ [][ReuseNext]_vars

\* ----------------------------- a deterministic generation function, twice
\* Step dictionaries whose validators return true on every text; the
\* generation function refuses every prompt made from StepRefused's
\* template.
StepAlwaysValid == [has_template |-> TRUE, template |-> "A {input}", template_ok |-> TRUE,
                    has_validators |-> TRUE,
                    validators |-> << "always", "always2" >>,
                    validator |-> ""]
StepDefaultValid == [has_template |-> TRUE, template |-> "B {input}", template_ok |-> TRUE,
                     has_validators |-> FALSE, validators |-> << >>,
                     validator |-> "always"]
StepRefused     == [has_template |-> TRUE, template |-> "F {input}", template_ok |-> TRUE,
                    has_validators |-> FALSE, validators |-> << >>,
                    validator |-> ""]
DetStepConfigs == {StepPlain, StepAlwaysValid, StepDefaultValid, StepRefused}

\* A deterministic generation function of the rendered prompt (line 128):
\* it echoes the step's input behind "OUT:", and raises for every prompt of
\* the template "F {input}".
Generate(template, input) ==
    IF template = "F {input}"
    THEN [kind |-> "raise", text |-> "", msg |-> "refused"]
    ELSE [kind |-> "text", text |-> "OUT:" \o input, msg |-> ""]

\* The generation call of the current attempt.
GenerateNow == Generate(chain_steps[i].template, current_input)

DetAttemptSucceeds == AttemptSucceedsWith(GenerateNow)
DetAttemptFailsRetry == AttemptFailsRetryWith(GenerateNow)
DetAttemptFailsFinal == AttemptFailsFinalWith(GenerateNow)

\* Lines 83-100: the first run, on a new manager.
DetFirstRun ==
    /\ seq_pc = "idle"
    /\ \E steps \in SeqsUpTo(DetStepConfigs, DetMaxSteps), input \in InitialInputs :
          /\ chain_steps' = steps
          /\ initial_input' = input
          /\ current_input' = InitialCurrentInput(input)
    /\ results' = << >>
    /\ i' = 1
    /\ seq_pc' = "for"
    /\ UNCHANGED << max_retries, earlier_outcomes, chain_history, execution_log,
                    step_timings, retry_count, step_successful, error_msg,
                    seq_outcome, gen_calls, attempts, sleeps >>
    /\ UNCHANGED parVars
    /\ UNCHANGED auxVars

\* Lines 83-100: the caller keeps the first outcome and runs the same step
\* list with the same input again on the same manager.
DetSecondRunReused ==
    /\ seq_pc = "returned"
    /\ earlier_outcomes = << >>
    /\ earlier_outcomes' = << seq_outcome >>
    /\ current_input' = InitialCurrentInput(initial_input)
    /\ results' = << >>
    /\ i' = 1
    /\ seq_pc' = "for"
    /\ seq_outcome' = NoOutcome
    /\ gen_calls' = << >>
    /\ attempts' = << >>
    /\ sleeps' = << >>
    /\ UNCHANGED << max_retries, chain_history, execution_log, step_timings,
                    chain_steps, initial_input, retry_count, step_successful,
                    error_msg >>
    /\ UNCHANGED parVars
    /\ UNCHANGED auxVars

\* Lines 62-76 and 83-100: the caller keeps the first outcome, builds a new
\* manager with the same max_retries and runs the same step list with the
\* same input on it.
DetSecondRunFresh ==
    /\ seq_pc = "returned"
    /\ earlier_outcomes = << >>
    /\ earlier_outcomes' = << seq_outcome >>
    /\ chain_history' = << >>
    /\ execution_log' = << >>
    /\ step_timings' = << >>
    /\ current_input' = InitialCurrentInput(initial_input)
    /\ results' = << >>
    /\ i' = 1
    /\ seq_pc' = "for"
    /\ seq_outcome' = NoOutcome
    /\ gen_calls' = << >>
    /\ attempts' = << >>
    /\ sleeps' = << >>
    /\ UNCHANGED << max_retries, chain_steps, initial_input, retry_count,
                    step_successful, error_msg >>
    /\ UNCHANGED parVars
    /\ UNCHANGED auxVars

DetInit ==
    /\ max_retries \in -1 .. DetMaxRetries
    /\ ManagerInit
    /\ SeqIdle
    /\ ParIdle
    /\ AuxIdle

DetNext ==
    \/ DetFirstRun
    \/ DetSecondRunReused
    \/ DetSecondRunFresh
    \/ ForNextStep
    \/ WhileExit
    \/ DetAttemptSucceeds
    \/ DetAttemptFailsRetry
    \/ DetAttemptFailsFinal
    \/ ReturnSuccess

DetSpec == DetInit /\ [][DetNext]_vars

\* -------------------------------------------------------- content_pipeline
\* Lines 412 and 416-444: the arguments and the three step dictionaries,
\* each with a "template" key only; str.replace has put the arguments into
\* the templates.
Topics == {"AI"}
Audiences == {"students"}
ContentTypes == {"blog"}

PipelineStep(template) ==
    [has_template |-> TRUE, template |-> template, template_ok |-> TRUE,
     has_validators |-> FALSE, validators |-> << >>, validator |-> ""]

PipelineSteps(topic, target_audience, content_type) ==
    << PipelineStep("Research " \o topic \o " for " \o target_audience
                        \o ". Outline:"),
       PipelineStep("Write a " \o content_type \o ". Outline: {input}"),
       PipelineStep("Review for " \o target_audience \o ". Original content: {input}") >>

\* Lines 414 and 446: manager = PromptChainManager(llm), then
\* execute_sequential_chain(pipeline_steps, f"Topic: {topic}") starts.
ContentPipelineCall ==
    /\ pipeline_pc = "idle"
    /\ seq_pc = "idle"
    /\ \E topic \in Topics, target_audience \in Audiences,
          content_type \in ContentTypes :
          /\ chain_steps' = PipelineSteps(topic, target_audience, content_type)
          /\ initial_input' = "Topic: " \o topic
          /\ current_input' = InitialCurrentInput("Topic: " \o topic)
    /\ results' = << >>
    /\ i' = 1
    /\ seq_pc' = "for"
    /\ pipeline_pc' = "running"
    /\ UNCHANGED << max_retries, earlier_outcomes, chain_history, execution_log,
                    step_timings, retry_count, step_successful, error_msg,
                    seq_outcome, gen_calls, attempts, sleeps >>
    /\ UNCHANGED parVars
    /\ UNCHANGED << pipeline_outcome, tasks, execution_order, order_outcome,
                    validation_outcome >>

\* "key in result" for the dictionary a sequential run returned.
DictHas(result, key) == key \in result.keys

\* result[...] on a missing key raises KeyError, which leaves
\* content_pipeline.
PipelineKeyError(key) ==
    [returned |-> FALSE, raised |-> TRUE, error |-> "KeyError: '" \o key \o "'"]

\* Lines 448-458: what content_pipeline makes of the chain's outcome.  The
\* dictionary display of lines 452-457 reads result["history"] last.
ContentPipeline(result) ==
    IF result.success
    THEN IF ~DictHas(result, "results") THEN PipelineKeyError("results")
         ELSE IF ~DictHas(result, "final_output") THEN PipelineKeyError("final_output")
         ELSE IF ~DictHas(result, "history") THEN PipelineKeyError("history")
         ELSE [returned |-> TRUE, raised |-> FALSE,
               keys |-> {"outline", "detailed_content", "final_content",
                         "execution_history"},
               outline |-> IF Len(result.results) > 0
                           THEN result.results[1].output ELSE "",
               detailed_content |-> IF Len(result.results) > 1
                                    THEN result.results[2].output ELSE "",
               final_content |-> result.final_output,
               execution_history |-> result.history]
    ELSE [returned |-> TRUE, raised |-> FALSE, keys |-> {"error"},
          error |-> IF DictHas(result, "error") THEN result.error
                    ELSE "Pipeline execution failed"]

\* Lines 446-458: the chain has returned and content_pipeline returns or
\* raises.
ContentPipelineReturn ==
    /\ pipeline_pc = "running"
    /\ seq_pc = "returned"
    /\ pipeline_outcome' = ContentPipeline(seq_outcome)
    /\ pipeline_pc' = "done"
    /\ UNCHANGED seqVars
    /\ UNCHANGED parVars
    /\ UNCHANGED << tasks, execution_order, order_outcome, validation_outcome >>

PipelineInit ==
    /\ max_retries = DefaultMaxRetries
    /\ ManagerInit
    /\ SeqIdle
    /\ ParIdle
    /\ AuxIdle

PipelineNext ==
    \/ ContentPipelineCall
    \/ ForNextStep
    \/ WhileExit
    \/ AttemptSucceeds
    \/ AttemptFailsRetry
    \/ AttemptFailsFinal
    \/ ReturnSuccess
    \/ ContentPipelineReturn

PipelineSpec == PipelineInit /\ [][PipelineNext]_vars

\* ----------------------------------------------------------- TaskDecomposer
\* task_decomposer.py.  self.tasks is a dict: the sequence below lists its
\* items in insertion order, which is the order .keys() and .items() give.
DecomposerTaskIds == 1 .. MaxTaskIds

\* The dependencies arguments add_task is called with: lists of task ids,
\* repeated, unregistered and the task's own id included.
DependencyLists == SeqsUpTo(DecomposerTaskIds, MaxDeps)

\* "task_id in self.tasks".
Registered(ts) == {ts[k].id : k \in 1 .. Len(ts)}

\* self.tasks.get(task_id).dependencies; a missing task has none to visit
\* (line 132, "if task:").
DependenciesOf(ts, task_id) ==
    IF task_id \in Registered(ts)
    THEN (CHOOSE t \in {ts[k] : k \in 1 .. Len(ts)} : t.id = task_id).dependencies
    ELSE << >>

\* Lines 58-65: self.tasks[task_id] = task.  A new key goes to the end of
\* the dict, an existing key keeps its place and gets the new task.
TasksAfterAdd(ts, task_id, dependencies) ==
    IF task_id \in Registered(ts)
    THEN [k \in 1 .. Len(ts) |->
             IF ts[k].id = task_id
             THEN [id |-> task_id, dependencies |-> dependencies]
             ELSE ts[k]]
    ELSE Append(ts, [id |-> task_id, dependencies |-> dependencies])

\* A visit that treats every dependency as registered.
DependencyRegistered_Always(ts, dep_id) == TRUE

\* Line 134: "if dep_id in self.tasks".
DependencyRegistered(ts, dep_id) == dep_id \in Registered(ts)

\* Lines 118-120: the sort's local state before the first visit.
SortStart ==
    [visited |-> {}, temp_visited |-> {}, order |-> << >>,
     raised |-> FALSE, task_id |-> 0]

RECURSIVE visit(_, _, _)
RECURSIVE VisitDependencies(_, _, _, _)

\* Lines 122-139: visit(task_id) on the sort's state st.  A raise stops
\* everything after it.
visit(ts, st, task_id) ==
    IF st.raised THEN st
    ELSE IF task_id \in st.temp_visited
    THEN [st EXCEPT !.raised = TRUE, !.task_id = task_id]
    ELSE IF task_id \in st.visited
    THEN st
    ELSE LET entered == [st EXCEPT !.temp_visited = @ \cup {task_id}]
             after == VisitDependencies(ts, entered,
                                        DependenciesOf(ts, task_id), 1)
         IN  IF after.raised THEN after
             ELSE [after EXCEPT !.temp_visited = @ \ {task_id},
                                !.visited = @ \cup {task_id},
                                !.order = Append(@, task_id)]

\* Lines 133-135: the loop over task.dependencies, from position k.
VisitDependencies(ts, st, dependencies, k) ==
    IF k > Len(dependencies) \/ st.raised THEN st
    ELSE VisitDependencies(ts,
                           IF DependencyRegistered(ts, dependencies[k])
                           THEN visit(ts, st, dependencies[k])
                           ELSE st,
                           dependencies, k + 1)

\* Lines 142-143: the loop over self.tasks.keys(), from position k.
RECURSIVE VisitAll(_, _, _)
VisitAll(ts, st, k) ==
    IF k > Len(ts) \/ st.raised THEN st
    ELSE VisitAll(ts, visit(ts, st, ts[k].id), k + 1)

\* Lines 109-146: what get_execution_order does on the tasks ts: it
\* returns the order, or raises ValueError naming a task.
OrderOf(ts) ==
    LET st == VisitAll(ts, SortStart, 1)
    IN  IF st.raised
        THEN [returned |-> FALSE, raised |-> TRUE, error |-> "ValueError",
              task_id |-> st.task_id]
        ELSE [returned |-> TRUE, raised |-> FALSE, order |-> st.order]

\* Lines 183-186: the issues about dependencies that are not registered,
\* for the tasks from position k, in order.
RECURSIVE MissingIssuesOfTask(_, _, _)
MissingIssuesOfTask(ts, task, d) ==
    IF d > Len(task.dependencies) THEN << >>
    ELSE (IF task.dependencies[d] \notin Registered(ts)
          THEN << [kind |-> "non-existent", task_id |-> task.id,
                   dep_id |-> task.dependencies[d]] >>
          ELSE << >>)
         \o MissingIssuesOfTask(ts, task, d + 1)

RECURSIVE MissingIssues(_, _)
MissingIssues(ts, k) ==
    IF k > Len(ts) THEN << >>
    ELSE MissingIssuesOfTask(ts, ts[k], 1) \o MissingIssues(ts, k + 1)

\* Lines 189-192: the issue the caught ValueError adds.
CircularIssues(ts) ==
    IF OrderOf(ts).raised
    THEN << [kind |-> "circular", task_id |-> OrderOf(ts).task_id, dep_id |-> 0] >>
    ELSE << >>

\* Lines 174-197: validate_dependencies' return value.
ValidationOf(ts) ==
    LET issues == MissingIssues(ts, 1) \o CircularIssues(ts)
    IN  [returned |-> TRUE, is_valid |-> Len(issues) = 0, issues |-> issues]

\* Lines 44-66: add_task.  Tasks get the ids 1, 2, ... in turn, or an id
\* already given is added again with new dependencies; the last id is
\* added once.
AddTask ==
    /\ order_outcome = NoOutcome
    /\ validation_outcome = NoOutcome
    /\ Len(tasks) < MaxTaskIds
    /\ \E task_id \in DecomposerTaskIds, dependencies \in DependencyLists :
          /\ task_id <= Len(tasks) + 1
          /\ tasks' = TasksAfterAdd(tasks, task_id, dependencies)
    /\ UNCHANGED << execution_order, order_outcome, validation_outcome,
                    pipeline_pc, pipeline_outcome >>
    /\ UNCHANGED seqVars
    /\ UNCHANGED parVars

\* Lines 109-146: get_execution_order; self.execution_order is assigned
\* only when no visit raised.
GetExecutionOrder ==
    /\ order_outcome = NoOutcome
    /\ order_outcome' = OrderOf(tasks)
    /\ execution_order' = IF OrderOf(tasks).returned THEN OrderOf(tasks).order
                          ELSE execution_order
    /\ UNCHANGED << tasks, validation_outcome, pipeline_pc, pipeline_outcome >>
    /\ UNCHANGED seqVars
    /\ UNCHANGED parVars

\* Lines 174-197: validate_dependencies, the call of get_execution_order
\* in it included.
ValidateDependencies ==
    /\ validation_outcome = NoOutcome
    /\ validation_outcome' = ValidationOf(tasks)
    /\ execution_order' = IF OrderOf(tasks).returned THEN OrderOf(tasks).order
                          ELSE execution_order
    /\ UNCHANGED << tasks, order_outcome, pipeline_pc, pipeline_outcome >>
    /\ UNCHANGED seqVars
    /\ UNCHANGED parVars

DecomposerInit ==
    /\ max_retries = DefaultMaxRetries
    /\ ManagerInit
    /\ SeqIdle
    /\ ParIdle
    /\ AuxIdle

DecomposerNext ==
    \/ AddTask
    \/ GetExecutionOrder
    \/ ValidateDependencies

DecomposerSpec == DecomposerInit /\ [][DecomposerNext]_vars

\* ================================================================ claims
\* Helpers over the record of attempts and generation calls.
AttemptsOf(k) == {j \in 1 .. Len(attempts) : attempts[j].step = k}
FailedAttemptsOf(k) == {j \in AttemptsOf(k) : ~attempts[j].ok}
CallsOf(k) == {j \in 1 .. Len(gen_calls) : gen_calls[j].step = k}

\* Step k has failed every attempt the retry budget gives it.
ExhaustedStep(k) ==
    /\ max_retries >= 0
    /\ Cardinality(FailedAttemptsOf(k)) = max_retries + 1

ReturnedSuccess == seq_outcome.returned /\ seq_outcome.success
ReturnedFailure == seq_outcome.returned /\ ~seq_outcome.success

\* C1: a sequential run with max_retries >= 0 that returns success has one
\* StepResult per step, the StepResult at position k (1-based here) has step
\* number k, and final_output is the output of the last StepResult.
C1_SuccessfulRunResults ==
    (ReturnedSuccess /\ max_retries >= 0) =>
        LET rs == seq_outcome.results IN
        /\ Len(rs) = Len(chain_steps)
        /\ \A k \in 1 .. Len(rs) : rs[k].step = k
        /\ Len(rs) > 0 => seq_outcome.final_output = rs[Len(rs)].output

\* A two-step run that succeeded after at least one failed attempt.
C1_Witness ==
    /\ ReturnedSuccess
    /\ max_retries >= 1
    /\ Len(chain_steps) = 2
    /\ \E j \in 1 .. Len(attempts) : ~attempts[j].ok

\* C2: when step k fails all of its attempts the run returns success = false,
\* the partial results are exactly the StepResults of steps 1..k-1 in order,
\* and the error message names step k and ends with the error text of the
\* last failed attempt.
C2_FailureOutcome ==
    \A k \in 1 .. Len(chain_steps) :
        ExhaustedStep(k) =>
            /\ ReturnedFailure
            /\ "partial_results" \in seq_outcome.keys
            /\ seq_outcome.results = results
            /\ Len(seq_outcome.results) = k - 1
            /\ \A j \in 1 .. k - 1 :
                  /\ seq_outcome.results[j].step = j
                  /\ \E a \in AttemptsOf(j) :
                        /\ attempts[a].ok
                        /\ a < Len(attempts)
            /\ seq_outcome.error =
                  "Chain failed at step " \o ToString(k) \o " after "
                      \o ToString(max_retries + 1) \o " attempts: "
                      \o attempts[Len(attempts)].error

\* The second step of a chain exhausted three attempts.
C2_Witness ==
    /\ ReturnedFailure
    /\ max_retries = 2
    /\ i = 2
    /\ Len(seq_outcome.results) = 1

\* C3 (as claimed): no recorded retry_count exceeds max_retries, and a step
\* whose every attempt fails causes exactly max_retries + 1 invocations of
\* the generation callable for that step.
C3_ExactlyMaxRetriesPlusOneCalls ==
    /\ \A k \in 1 .. Len(results) : results[k].retry_count <= max_retries
    /\ \A k \in 1 .. Len(chain_steps) :
          ExhaustedStep(k) => Cardinality(CallsOf(k)) = max_retries + 1

\* C3 (amended): no recorded retry_count exceeds max_retries; no step is
\* attempted more than max_retries + 1 times; a run that returns failure at
\* step k made exactly max_retries + 1 attempts of step k, all failed, and
\* each of them invoked the generation callable once if the step has a
\* template that PromptTemplate accepts and not at all otherwise (the
\* template is looked up and parsed before the call).
C3_AttemptsAndCalls ==
    max_retries >= 0 =>
        /\ \A k \in 1 .. Len(results) : results[k].retry_count <= max_retries
        /\ \A k \in 1 .. Len(chain_steps) :
              /\ Cardinality(AttemptsOf(k)) <= max_retries + 1
              /\ Cardinality(CallsOf(k)) <= Cardinality(AttemptsOf(k))
        /\ ReturnedFailure =>
              /\ Cardinality(AttemptsOf(i)) = max_retries + 1
              /\ FailedAttemptsOf(i) = AttemptsOf(i)
              /\ Cardinality(CallsOf(i)) =
                    IF chain_steps[i].has_template /\ chain_steps[i].template_ok
                    THEN max_retries + 1 ELSE 0

\* A step with a template failed three attempts with max_retries = 2: three
\* invocations.
C3_Witness ==
    /\ ReturnedFailure
    /\ max_retries = 2
    /\ chain_steps[i].has_template
    /\ chain_steps[i].template_ok
    /\ Cardinality(CallsOf(i)) = 3

\* C4: once a step has exhausted its attempts the run has returned, and from
\* then on nothing is invoked, logged or recorded: no later step runs.
C4_StopsAtExhaustion ==
    /\ [](\A k \in 1 .. Len(chain_steps) :
            ExhaustedStep(k) =>
                /\ seq_pc = "returned"
                /\ \A j \in 1 .. Len(attempts) : attempts[j].step <= k
                /\ \A j \in 1 .. Len(chain_history) : chain_history[j].step <= k
                /\ \A j \in 1 .. Len(results) : results[j].step < k)
    /\ [][(\E k \in 1 .. Len(chain_steps) : ExhaustedStep(k)) =>
            UNCHANGED << gen_calls, attempts, chain_history, results,
                         step_timings, current_input, i >>]_vars

\* The first step of a two-step chain exhausted its attempts: the second
\* step was never attempted.
C4_Witness ==
    /\ ReturnedFailure
    /\ i = 1
    /\ Len(chain_steps) = 2
    /\ max_retries >= 1
    /\ AttemptsOf(2) = {}

\* The input a step must see: the caller's input for step 1, the output of
\* the StepResult of step s-1 for step s > 1.
IsInputOfStep(s, text) ==
    \/ s = 1 /\ text = initial_input
    \/ s > 1 /\ \E j \in 1 .. Len(results) :
                   results[j].step = s - 1 /\ results[j].output = text

\* C5: StepResults are recorded in strictly increasing step number; every
\* attempt of step 1 records and uses the caller's initial input and every
\* attempt of step s > 1 the output of step s-1's StepResult; a failed
\* attempt leaves the current input as it was.
C5_InputThreading ==
    /\ \A k \in 1 .. Len(results) - 1 : results[k].step < results[k + 1].step
    /\ \A j \in 1 .. Len(chain_history) :
          IsInputOfStep(chain_history[j].step, chain_history[j].input_preview)
    /\ \A j \in 1 .. Len(gen_calls) :
          IsInputOfStep(gen_calls[j].step, gen_calls[j].input)
    /\ \A j \in 1 .. Len(attempts) :
          IsInputOfStep(attempts[j].step, attempts[j].input)
    /\ (Len(attempts) > 0 /\ ~attempts[Len(attempts)].ok) =>
          current_input = attempts[Len(attempts)].input

\* The second step is being retried after an attempt whose output failed
\* validation.
C5_Witness ==
    /\ \E j \in 1 .. Len(chain_history) :
          chain_history[j].step = 2 /\ chain_history[j].retry_attempt >= 1
    /\ \E j \in AttemptsOf(2) :
          ~attempts[j].ok /\ attempts[j].invoked /\ attempts[j].error # "timeout"

\* C6: neither run method lets an exception escape to the caller.
C6_NoExceptionEscapes == par_pc # "raised" /\ seq_pc # "raised"

TaskIds == 1 .. Len(prompt_templates)
ParFinished == par_pc = "returned"

\* C7: a task whose generation call raises is recorded as a failed entry
\* whose result text carries the error message, and it aborts no sibling: no
\* task is ever cancelled, every finished task has the outcome its own
\* generation call determines, and the returned outcome holds that outcome
\* for every task.
C7_FailureIsolation ==
    /\ \A k \in TaskIds :
          /\ task_state[k] \in {"new", "queued", "running", "done"}
          /\ futures[k].done =>
                LET v == futures[k].value  nm == prompt_templates[k].name IN
                /\ v.name = nm
                /\ task_behaviour[k] = "raise" =>
                      /\ ~v.success
                      /\ v.result = "Error: " \o TaskError(nm)
                      /\ v.error = TaskError(nm)
                /\ task_behaviour[k] = "ok" =>
                      /\ v.success
                      /\ v.result = TaskText(nm)
    /\ ParFinished =>
          \A k \in TaskIds :
              /\ task_state[k] = "done"
              /\ par_outcome.execution_details[k] = futures[k].value
              /\ par_outcome.parallel_results[prompt_templates[k].name]
                    = futures[k].value.result

\* A run returned in which an early task failed and a later one succeeded.
C7_Witness ==
    /\ ParFinished
    /\ \E j, k \in TaskIds :
          /\ j < k
          /\ ~par_outcome.execution_details[j].success
          /\ par_outcome.execution_details[k].success

AfterJoin == par_pc \in {"organize", "synthesis", "return", "returned"}

\* C8: synthesis and the return come only after every submitted task has
\* finished, and what they read of each task is its final result; no task is
\* left queued, running or cancelled.
C8_JoinAll ==
    /\ AfterJoin =>
          /\ Len(parallel_results) = Len(prompt_templates)
          /\ \A k \in TaskIds :
                /\ task_state[k] = "done"
                /\ futures[k].done
                /\ parallel_results[k] = futures[k].value
    /\ synth_calls > 0 => AfterJoin
    /\ par_outcome.returned => AfterJoin

\* Synthesis is about to start in a run with more tasks than workers.
C8_Witness ==
    /\ par_pc = "synthesis"
    /\ Len(prompt_templates) > PoolCap

SomeTaskSucceeded == \E k \in TaskIds : task_behaviour[k] = "ok"

\* C9: the synthesis call is made at most once, and it is made if and only
\* if a synthesis template was supplied and at least one task succeeded;
\* when no task succeeds or no template is supplied, no synthesis call is
\* attempted, the synthesis field stays empty and nothing is raised.
C9_SynthesisIffTemplateAndSuccess ==
    /\ synth_calls <= 1
    /\ par_pc \in {"returned", "raised"} =>
          /\ synth_calls = 1 <=> (Truthy(synthesis_template) /\ SomeTaskSucceeded)
          /\ (~SomeTaskSucceeded \/ ~Truthy(synthesis_template)) =>
                /\ par_pc = "returned"
                /\ synth_calls = 0
                /\ par_outcome.synthesis = None

\* C10: the names of the returned per-task mapping are exactly the names the
\* caller supplied, whatever subset of the tasks failed.
C10_ReturnedNames ==
    ParFinished =>
        DOMAIN par_outcome.parallel_results = Names(prompt_templates)

\* A run returned in which some tasks failed and some succeeded.
C10_Witness ==
    /\ ParFinished
    /\ par_outcome.failed_count >= 2
    /\ par_outcome.successful_count >= 1

\* Tasks by what the environment did with them: the generation call was made
\* and returned, was made and raised, or was never made because building the
\* prompt raised first.
CallReturned == {k \in TaskIds : task_behaviour[k] = "ok"}
CallRaised == {k \in TaskIds : task_behaviour[k] = "raise"}
NoCallMade == {k \in TaskIds : task_behaviour[k] = "reject"}

\* C11 as stated: the two counts add up to the number of submitted tasks,
\* successful_count is the number of tasks whose generation call returned and
\* failed_count the number whose generation call raised.
C11_CountsByGenerationCall ==
    ParFinished =>
        /\ par_outcome.successful_count + par_outcome.failed_count
              = Len(prompt_templates)
        /\ par_outcome.successful_count = Cardinality(CallReturned)
        /\ par_outcome.failed_count = Cardinality(CallRaised)

\* C11, amended: the two counts add up to the number of submitted tasks,
\* successful_count is the number of tasks whose generation call returned and
\* failed_count the number of all other tasks: those whose generation call
\* raised and those whose prompt could not be built, for which no generation
\* call was made.
C11_CountsPartitionTasks ==
    ParFinished =>
        /\ par_outcome.successful_count + par_outcome.failed_count
              = Len(prompt_templates)
        /\ par_outcome.successful_count = Cardinality(CallReturned)
        /\ par_outcome.failed_count
              = Cardinality(CallRaised) + Cardinality(NoCallMade)
        /\ \A k \in NoCallMade : task_calls[k] = 0

\* A run returned with a task of each kind.
C11_Witness ==
    /\ ParFinished
    /\ CallReturned # {}
    /\ CallRaised # {}
    /\ NoCallMade # {}

SynthesisRaised == synth_log # << >> /\ synth_log[1].kind = "raise"

\* What the tasks alone determine of the outcome, whatever synthesis does.
ExpectedDetails ==
    [k \in TaskIds |-> RunSinglePrompt(prompt_templates[k].name, task_behaviour[k])]

\* C12: a raising synthesis call is caught: the run returns, the synthesis
\* field is the "Synthesis failed: " string with the error's text, and the
\* per-task results and both counts are what the tasks alone determine, the
\* same as in the run whose synthesis call returns.
C12_SynthesisFailureContained ==
    /\ SynthesisRaised => par_pc \in {"return", "returned"}
    /\ ParFinished =>
          /\ par_outcome.execution_details = ExpectedDetails
          /\ \A k \in TaskIds :
                par_outcome.parallel_results[prompt_templates[k].name]
                    = ExpectedDetails[k].result
          /\ par_outcome.successful_count = Cardinality(CallReturned)
          /\ par_outcome.failed_count = Len(prompt_templates) - Cardinality(CallReturned)
          /\ SynthesisRaised => par_outcome.synthesis = "Synthesis failed: overloaded"
          /\ (synth_log # << >> /\ ~SynthesisRaised) => par_outcome.synthesis = "SYNTHESIS"

\* A run returned whose synthesis call raised after some tasks succeeded and
\* some failed.
C12_Witness ==
    /\ ParFinished
    /\ SynthesisRaised
    /\ par_outcome.successful_count >= 1
    /\ par_outcome.failed_count >= 1

\* The number of task-level generation calls made so far.
RECURSIVE SumCalls(_)
SumCalls(calls) ==
    IF calls = << >> THEN 0 ELSE Head(calls) + SumCalls(Tail(calls))

\* C13 as stated: every task of a returned run made exactly one generation
\* call, so n tasks made exactly n task-level calls, plus at most one
\* synthesis call.
C13_ExactlyOneCallPerTask ==
    /\ synth_calls <= 1
    /\ ParFinished =>
          /\ \A k \in TaskIds : task_calls[k] = 1
          /\ SumCalls(task_calls) = Len(prompt_templates)

\* C13, amended: no task ever makes more than one generation call, failed
\* or not (max_retries is positive here and plays no part); a finished task
\* made exactly one call unless building its prompt raised first, in which
\* case it made none; so a run of n tasks makes at most n task-level calls,
\* exactly n minus the number of rejected templates, plus at most one
\* synthesis call.
C13_AtMostOneCallPerTask ==
    /\ max_retries > 0
    /\ synth_calls <= 1
    /\ \A k \in TaskIds :
          /\ task_calls[k] <= 1
          /\ task_state[k] # "done" => task_calls[k] = 0
          /\ task_state[k] = "done" =>
                (task_calls[k] = 1 <=> task_behaviour[k] # "reject")
    /\ SumCalls(task_calls) <= Len(prompt_templates)
    /\ ParFinished =>
          SumCalls(task_calls) = Len(prompt_templates) - Cardinality(NoCallMade)

\* A run returned after a synthesis call, with a task whose call raised and
\* a task whose template was rejected.
C13_Witness ==
    /\ ParFinished
    /\ synth_calls = 1
    /\ \E k \in CallRaised : task_calls[k] = 1
    /\ \E k \in NoCallMade : task_calls[k] = 0

\* min(number of tasks, 4), written out.
WorkerBound ==
    IF Len(prompt_templates) <= PoolCap THEN Len(prompt_templates) ELSE PoolCap

\* C14: at every moment at most min(number of tasks, 4) tasks are executing,
\* and the outcome reports max_workers_used = min(number of tasks, 4).
C14_BoundedConcurrency ==
    /\ Cardinality(Running) <= WorkerBound
    /\ ParFinished => par_outcome.max_workers_used = WorkerBound

\* Four tasks are executing while a fifth waits in the queue.
C14_Witness ==
    /\ Cardinality(Running) = PoolCap
    /\ work_queue # << >>
    /\ Len(prompt_templates) > PoolCap

\* The text synthesis must be given, built from the tasks themselves: for
\* each task from k on whose generation call returned, in the mapping's
\* order, the upper-cased task name, a colon and a newline, then the task's
\* output; blocks are separated by an empty line.
RECURSIVE LabelledOutputsFrom(_)
LabelledOutputsFrom(k) ==
    IF k > Len(prompt_templates) THEN ""
    ELSE IF task_behaviour[k] # "ok" THEN LabelledOutputsFrom(k + 1)
    ELSE LET nm == prompt_templates[k].name
             block == Upper(nm) \o ":\n" \o TaskText(nm)
             rest == LabelledOutputsFrom(k + 1)
         IN  IF rest = "" THEN block ELSE block \o "\n\n" \o rest

\* C18: the synthesis call receives, as analysis_results, the outputs of
\* exactly the tasks that succeeded, each once under its task's name and
\* none of a failed task's error text, and as original_document the caller's
\* document unchanged.
C18_SynthesisInputFromSuccesses ==
    \A j \in 1 .. Len(synth_log) :
        /\ synth_log[j].analysis_results = LabelledOutputsFrom(1)
        /\ synth_log[j].original_document = document
        /\ synthesis_input = synth_log[j].analysis_results

\* Synthesis ran in a run where a failed task lies between two successful
\* ones.
C18_Witness ==
    /\ synth_log # << >>
    /\ \E a, b, c \in TaskIds :
          /\ a < b /\ b < c
          /\ task_behaviour[a] = "ok"
          /\ task_behaviour[b] = "raise"
          /\ task_behaviour[c] = "ok"

\* The sleeps taken during step k, in order.
SleptInStep(k) == LET InK(e) == e.step = k IN SelectSeq(sleeps, InK)

\* C17: within a step the a-th failed attempt is followed, when a retry
\* remains, by a wait of 0.5 * 2^(a-1) seconds: 500 ms first, then twice the
\* previous wait each time; the failed attempt that exhausts the retries is
\* followed by the return and by no wait; and each step starts again from
\* the first value.
C17_ExponentialBackoff ==
    /\ \A k \in 1 .. Len(chain_steps) :
          LET sl == SleptInStep(k)
              failed == Cardinality(FailedAttemptsOf(k))
          IN  /\ Len(sl) = IF ExhaustedStep(k) THEN failed - 1 ELSE failed
              /\ \A a \in 1 .. Len(sl) :
                    /\ sl[a].after_attempt = a
                    /\ a = 1 => sl[a].ms = 500
                    /\ a > 1 => sl[a].ms = 2 * sl[a - 1].ms
    /\ \A j \in 1 .. Len(sleeps) : sleeps[j].step \in 1 .. Len(chain_steps)
    /\ ReturnedFailure => (sleeps = << >> \/ sleeps[Len(sleeps)].after_attempt = max_retries)

\* The run failed at its second step after waiting 500 ms and 1000 ms there,
\* having already waited 500 ms during its first step.
C17_Witness ==
    /\ ReturnedFailure
    /\ i = 2
    /\ Len(SleptInStep(1)) = 1
    /\ SleptInStep(1)[1].ms = 500
    /\ Len(SleptInStep(2)) = 2
    /\ SleptInStep(2)[1].ms = 500
    /\ SleptInStep(2)[2].ms = 1000

\* The validators of a step, in the order the code would call them: the
\* items of "validators" when that key is present, else the one "validator"
\* when it is set.
ValidatorsOf(step) ==
    IF step.has_validators THEN step.validators
    ELSE IF step.validator # "" THEN << step.validator >>
    ELSE << >>

\* The attempts in which the generation call returned a text.
ReturnedAttempts == {j \in 1 .. Len(attempts) : attempts[j].returned}

\* C16 as stated: on an attempt whose generation call returned, every
\* validator of the step was run on the output, and the attempt failed if
\* and only if some validator of the step returns false on that output.
C16_EveryValidatorRun ==
    \A j \in ReturnedAttempts :
        LET names == ValidatorsOf(chain_steps[attempts[j].step]) IN
        /\ attempts[j].ran = names
        /\ ~attempts[j].ok <=>
              \E n \in 1 .. Len(names) :
                  ApplyValidator(names[n], attempts[j].output) = "fail"

\* C16, amended: on an attempt whose generation call returned, the
\* validators are run on the raw output in order and only up to the first
\* one that returns false or raises: every validator run before the last
\* one passed, the attempt failed if and only if the last one run returned
\* false or raised, the validators after it were skipped, and an attempt
\* that succeeded ran them all.
C16_ValidatorsUntilFirstFailure ==
    \A j \in ReturnedAttempts :
        LET names == ValidatorsOf(chain_steps[attempts[j].step])
            ran == attempts[j].ran
            out == attempts[j].output
        IN  /\ Len(ran) <= Len(names)
            /\ ran = SubSeq(names, 1, Len(ran))
            /\ \A n \in 1 .. Len(ran) - 1 : ApplyValidator(ran[n], out) = "pass"
            /\ attempts[j].ok => ran = names
            /\ ~attempts[j].ok <=>
                  /\ ran # << >>
                  /\ ApplyValidator(ran[Len(ran)], out) \in {"fail", "raise"}

\* An attempt failed on the first of two validators and the second was not
\* run.
C16_Witness ==
    \E j \in ReturnedAttempts :
        /\ ~attempts[j].ok
        /\ Len(ValidatorsOf(chain_steps[attempts[j].step])) = 2
        /\ Len(attempts[j].ran) = 1

\* This step of the executor is a failed attempt that reached the
\* generation call: the call raised, or a validator rejected its output.
FailedAttemptStep ==
    /\ Len(attempts') = Len(attempts) + 1
    /\ ~attempts'[Len(attempts')].ok
    /\ attempts'[Len(attempts')].invoked

\* C15: what a failed attempt does to the run is fixed by the state before
\* it and not by the kind of failure: it adds one history entry and one
\* generation call, adds one to the attempt counter, leaves the StepResults,
\* the timings and the current input alone, and then either waits the
\* backoff of that counter and retries or, when no retry remains, returns
\* failure with the StepResults so far; the kind of failure shows only in
\* the error text.
C15_FailureKindsAlike ==
    [][FailedAttemptStep =>
          /\ retry_count' = retry_count + 1
          /\ chain_history' = Append(chain_history, StepLog)
          /\ Len(gen_calls') = Len(gen_calls) + 1
          /\ results' = results
          /\ step_timings' = step_timings
          /\ current_input' = current_input
          /\ i' = i
          /\ step_successful' = step_successful
          /\ IF retry_count + 1 > max_retries
             THEN /\ seq_pc' = "returned"
                  /\ sleeps' = sleeps
                  /\ ~seq_outcome'.success
                  /\ seq_outcome'.results = results
                  /\ seq_outcome'.execution_history = chain_history'
             ELSE /\ seq_pc' = "while"
                  /\ Len(sleeps') = Len(sleeps) + 1
                  /\ sleeps'[Len(sleeps')].step = i
                  /\ sleeps'[Len(sleeps')].ms = 500 * 2 ^ retry_count
                  /\ seq_outcome' = seq_outcome]_vars

\* One step has had a failed attempt of each kind: a generation call that
\* raised and an output that a validator rejected.
C15_Witness ==
    \E k \in 1 .. Len(chain_steps) :
        /\ \E j \in AttemptsOf(k) :
              ~attempts[j].ok /\ attempts[j].invoked /\ ~attempts[j].returned
        /\ \E j \in AttemptsOf(k) :
              ~attempts[j].ok /\ attempts[j].returned

\* C19: an outcome, once returned, reads the same for ever: whatever the
\* manager does later, another run included, every field of an outcome the
\* caller holds (results, execution history, execution log, performance
\* metrics and their step timings) is as it was when the outcome was built.
C19_OutcomeImmutable ==
    /\ \A r \in 1 .. Len(earlier_outcomes) :
          CurrentView(earlier_outcomes[r]) = earlier_outcomes[r]
    /\ seq_outcome.returned => CurrentView(seq_outcome) = seq_outcome

\* The logged attempts of the current run.
LoggedAttempts ==
    {j \in 1 .. Len(attempts) :
        chain_steps[attempts[j].step].has_template}

\* C20: the metrics and the history of a returned outcome are those of its
\* own run: total_steps and the step timing list have one entry per
\* StepResult of the run, and the history one entry per attempt of the run,
\* also on a manager that has run before.
C20_PerRunMetricsAndHistory ==
    seq_outcome.returned =>
        /\ seq_outcome.performance_metrics.total_steps = Len(seq_outcome.results)
        /\ Len(seq_outcome.performance_metrics.step_timings)
              = Len(seq_outcome.results)
        /\ \A k \in 1 .. Len(seq_outcome.results) :
              seq_outcome.performance_metrics.step_timings[k]
                  = seq_outcome.results[k].step
        /\ Len(seq_outcome.execution_history) = Cardinality(LoggedAttempts)
        /\ \A j \in 1 .. Len(seq_outcome.execution_history) :
              seq_outcome.execution_history[j].input_preview = attempts[j].input

\* The slots of the futures list that differ between this state and the
\* next.
WrittenSlots == {k \in DOMAIN futures : futures'[k] # futures[k]}

\* C23: a step that writes a task's result writes the slot of one task only,
\* a task that was executing and had no result yet, and touches none of the
\* caller's structures; the caller takes a result only from a finished
\* future; and the result mappings and counts are written only after every
\* worker has finished.
C23_NoSharedWrites ==
    [][/\ (DOMAIN futures' = DOMAIN futures /\ futures' # futures) =>
            /\ Cardinality(WrittenSlots) = 1
            /\ \A k \in WrittenSlots :
                  /\ task_state[k] = "running"
                  /\ ~futures[k].done
                  /\ futures'[k].done
                  /\ futures'[k].value.name = prompt_templates[k].name
            /\ parallel_results' = parallel_results
            /\ results_dict' = results_dict
            /\ successful_results' = successful_results
            /\ par_outcome' = par_outcome
       /\ parallel_results' # parallel_results =>
            /\ futures' = futures
            /\ \E k \in TaskIds :
                  /\ futures[k].done
                  /\ parallel_results' = Append(parallel_results, futures[k].value)
       /\ (results_dict' # results_dict
              \/ successful_results' # successful_results
              \/ par_outcome' # par_outcome) =>
            /\ futures' = futures
            /\ \A k \in TaskIds : task_state[k] = "done" /\ futures[k].done
      ]_vars

\* The caller has taken the first task's result while two later tasks are
\* still executing and another has already finished.
C23_Witness ==
    /\ par_pc = "collect"
    /\ Len(parallel_results) = 1
    /\ Cardinality(Running) >= 2
    /\ \E k \in TaskIds : k > 1 /\ futures[k].done

\* C24: no submitted task is refused or dropped: a task is only ever new,
\* queued, executing or finished, a queued task is on the pool's queue, and
\* once the pool exists the run goes on to return an outcome with an entry
\* for every submitted task, however many more tasks than workers there are.
C24_EveryTaskRuns ==
    /\ [](\A k \in TaskIds :
             /\ task_state[k] \in {"new", "queued", "running", "done"}
             /\ task_state[k] = "queued" =>
                   \E q \in 1 .. Len(work_queue) : work_queue[q] = k)
    /\ (par_pc = "submit") ~>
          (/\ ParFinished
           /\ Len(par_outcome.execution_details) = Len(prompt_templates)
           /\ \A k \in TaskIds :
                 /\ task_state[k] = "done"
                 /\ prompt_templates[k].name \in DOMAIN par_outcome.parallel_results)

\* A run of more tasks than workers returned with an entry for each task.
C24_Witness ==
    /\ ParFinished
    /\ Len(prompt_templates) > PoolCap
    /\ Len(par_outcome.execution_details) = Len(prompt_templates)
    /\ DOMAIN par_outcome.parallel_results = Names(prompt_templates)

\* C27: the detail list of the outcome has the tasks in the order of the
\* caller's mapping, and the text given to synthesis has the successful
\* outputs in that order, whatever the order in which the workers finished.
C27_SubmissionOrder ==
    /\ \A k \in 1 .. Len(parallel_results) :
          parallel_results[k].name = prompt_templates[k].name
    /\ ParFinished =>
          /\ Len(par_outcome.execution_details) = Len(prompt_templates)
          /\ \A k \in TaskIds :
                par_outcome.execution_details[k].name = prompt_templates[k].name
    /\ \A j \in 1 .. Len(synth_log) :
          synth_log[j].analysis_results = LabelledOutputsFrom(1)

\* A run with synthesis returned in which a task finished before a task
\* submitted earlier, both successfully.
C27_Witness ==
    /\ ParFinished
    /\ finished_out_of_order
    /\ synth_log # << >>
    /\ par_outcome.successful_count >= 2

\* C28: the success flag of a returned parallel outcome is true, however
\* many tasks failed and whether or not synthesis failed.
C28_SuccessAlwaysTrue ==
    par_outcome.returned => par_outcome.success = TRUE

\* A run returned in which every task failed.
C28_Witness ==
    /\ ParFinished
    /\ par_outcome.successful_count = 0
    /\ par_outcome.failed_count >= 2
    /\ par_outcome.success

\* The name under which the n-th validator of a step is recorded: its key
\* in "validators", or "default" for the single "validator".
RecordedName(step, n) ==
    IF step.has_validators THEN step.validators[n] ELSE "default"

\* A StepResult lists every validator of its step, in order, as passed, and
\* its output does pass each of them.
PassedEveryValidator(r) ==
    LET step == chain_steps[r.step]
        names == ValidatorsOf(step)
    IN  /\ Len(r.validation_results) = Len(names)
        /\ \A n \in 1 .. Len(names) :
              /\ r.validation_results[n].validator = RecordedName(step, n)
              /\ r.validation_results[n].passed = TRUE
              /\ ApplyValidator(names[n], r.output) = "pass"

\* C25: every StepResult, in the results being built and in the results or
\* partial results of the outcome, has one (name, passed) pair per validator
\* of its step, in order and all passed; a StepResult of a step comes from
\* an attempt later than every rejected attempt of that step, and the
\* current input is always the caller's input or the output of the last
\* StepResult, never a rejected output.
C25_OnlyValidatedOutputs ==
    /\ \A k \in 1 .. Len(results) : PassedEveryValidator(results[k])
    /\ seq_outcome.returned =>
          \A k \in 1 .. Len(seq_outcome.results) :
              PassedEveryValidator(seq_outcome.results[k])
    /\ \A j \in 1 .. Len(attempts) :
          (attempts[j].returned /\ ~attempts[j].ok) =>
              \A k \in 1 .. Len(results) :
                  results[k].step = attempts[j].step =>
                      results[k].retry_count
                          >= Cardinality({a \in AttemptsOf(attempts[j].step) : a <= j})
    /\ current_input = IF results = << >> THEN initial_input
                       ELSE results[Len(results)].output

\* A step with two validators produced a StepResult on a retry, after an
\* output of its earlier attempt had been rejected.
C25_Witness ==
    \E k \in 1 .. Len(results) :
        /\ Len(results[k].validation_results) = 2
        /\ results[k].retry_count >= 1
        /\ \E j \in AttemptsOf(results[k].step) :
              attempts[j].returned /\ ~attempts[j].ok

\* C26: a call with an empty step list returns success with no results and
\* the caller's input as final_output, and makes no generation call,
\* whatever max_retries is; it makes no attempt at all.
C26_EmptyStepList ==
    (seq_pc # "idle" /\ chain_steps = << >>) =>
        /\ gen_calls = << >>
        /\ attempts = << >>
        /\ seq_pc \in {"for", "returned"}
        /\ seq_pc = "returned" =>
              /\ seq_outcome.returned
              /\ seq_outcome.success = TRUE
              /\ seq_outcome.results = << >>
              /\ seq_outcome.final_output = initial_input
              /\ initial_input \in InitialInputs

\* The empty step list returned on a manager built with max_retries = 0.
C26_Witness ==
    /\ seq_pc = "returned"
    /\ chain_steps = << >>
    /\ max_retries = 0
    /\ seq_outcome.final_output = "X"

\* The second of two runs of the same step list and input has returned.
SecondRunReturned == seq_outcome.returned /\ earlier_outcomes # << >>

\* The second run was made on the manager of the first: the manager's
\* history holds more than this run's attempts.
OnReusedManager == Len(chain_history) > Len(attempts)

\* C21: with validators that always pass and a deterministic generation
\* function, the second run of the same step list and input returns the
\* same results (step numbers, outputs, validation results, retry counts,
\* output lengths), the same final_output and the same success flag as the
\* first, on a new manager and on the first run's manager alike.
C21_RepeatedRunSameResults ==
    SecondRunReturned =>
        /\ seq_outcome.results = earlier_outcomes[1].results
        /\ seq_outcome.final_output = earlier_outcomes[1].final_output
        /\ seq_outcome.success = earlier_outcomes[1].success

\* A second run of three steps has returned success on the first run's
\* manager.
C21_Witness ==
    /\ SecondRunReturned
    /\ OnReusedManager
    /\ seq_outcome.success
    /\ Len(seq_outcome.results) = 3
    /\ Len(seq_outcome.results[2].validation_results) >= 1

\* g applied k times to x, for g(x) = "OUT:" + x.
RECURSIVE EchoTimes(_, _)
EchoTimes(k, x) == IF k = 0 THEN x ELSE "OUT:" \o EchoTimes(k - 1, x)

\* The generation function fails for no step of the chain.
NeverRefused ==
    \A k \in 1 .. Len(chain_steps) : chain_steps[k] # StepRefused

\* C22: a chain of n steps whose validation always passes and whose
\* generation function g never fails returns success with n StepResults,
\* the output of step k being g applied k times to the initial input
\* ("OUT:X", "OUT:OUT:X", "OUT:OUT:OUT:X" for input "X"), final_output the
\* n-th of them, and every retry_count 0.
C22_EchoChain ==
    (seq_outcome.returned /\ NeverRefused) =>
        /\ seq_outcome.success
        /\ Len(seq_outcome.results) = Len(chain_steps)
        /\ \A k \in 1 .. Len(seq_outcome.results) :
              /\ seq_outcome.results[k].step = k
              /\ seq_outcome.results[k].output = EchoTimes(k, initial_input)
              /\ seq_outcome.results[k].retry_count = 0
        /\ seq_outcome.final_output = EchoTimes(Len(chain_steps), initial_input)

\* What does hold of such a chain: the statement above on a manager whose
\* max_retries is not negative, and no step executed at all otherwise.
EchoChainByMaxRetries ==
    /\ max_retries >= 0 => C22_EchoChain
    /\ (max_retries < 0 /\ seq_outcome.returned) =>
          /\ seq_outcome.success
          /\ seq_outcome.results = << >>
          /\ seq_outcome.final_output = initial_input
          /\ gen_calls = << >>

\* C29: when its three-step chain succeeds, content_pipeline returns a
\* mapping with outline = the output of step 1, detailed_content = the
\* output of step 2, final_content = the chain's final output and the
\* chain's execution history; when the chain fails it returns a mapping
\* holding only the chain's error message.
C29_ContentPipelineMapping ==
    pipeline_pc = "done" =>
        /\ pipeline_outcome.returned
        /\ IF seq_outcome.success
           THEN /\ pipeline_outcome.keys = {"outline", "detailed_content",
                                            "final_content", "execution_history"}
                /\ pipeline_outcome.outline = seq_outcome.results[1].output
                /\ pipeline_outcome.detailed_content = seq_outcome.results[2].output
                /\ pipeline_outcome.final_content = seq_outcome.final_output
                /\ pipeline_outcome.execution_history = seq_outcome.execution_history
           ELSE /\ pipeline_outcome.keys = {"error"}
                /\ pipeline_outcome.error = seq_outcome.error

\* What does hold: a failed chain gives the mapping with the error message
\* only, and a chain that succeeded makes content_pipeline raise KeyError.
PipelineFailsOrRaises ==
    pipeline_pc = "done" =>
        IF seq_outcome.success
        THEN /\ pipeline_outcome.raised
             /\ pipeline_outcome.error = "KeyError: 'history'"
        ELSE /\ pipeline_outcome.returned
             /\ pipeline_outcome.keys = {"error"}
             /\ pipeline_outcome.error = seq_outcome.error

\* The registered tasks among the dependencies of the task at position k.
RegisteredDependencies(k) ==
    {tasks[k].dependencies[d] : d \in 1 .. Len(tasks[k].dependencies)}
        \cap Registered(tasks)

\* The positions left after taking away, again and again, every task none
\* of whose registered dependencies is left: the tasks on a cycle of the
\* registered dependency graph or depending on one.
RECURSIVE NeverFree(_)
NeverFree(S) ==
    LET left == {tasks[k].id : k \in S}
        free == {k \in S : RegisteredDependencies(k) \cap left = {}}
    IN  IF free = {} THEN S ELSE NeverFree(S \ free)

HasCycle == NeverFree(1 .. Len(tasks)) # {}

\* C30: get_execution_order returns every registered task id exactly once,
\* each task after all of its registered dependencies, dependencies on
\* unregistered tasks being ignored; it raises the circular-dependency
\* error exactly when the registered dependency graph has a cycle, and
\* validate_dependencies then reports is_valid = false.
C30_ExecutionOrder ==
    /\ order_outcome # NoOutcome =>
           IF HasCycle
           THEN /\ order_outcome.raised
                /\ order_outcome.error = "ValueError"
           ELSE /\ order_outcome.returned
                /\ Len(order_outcome.order) = Len(tasks)
                /\ {order_outcome.order[k] : k \in 1 .. Len(order_outcome.order)}
                       = Registered(tasks)
                /\ \A k \in 1 .. Len(tasks) :
                       \A dep_id \in RegisteredDependencies(k) :
                           \E a, b \in 1 .. Len(order_outcome.order) :
                               /\ a < b
                               /\ order_outcome.order[a] = dep_id
                               /\ order_outcome.order[b] = tasks[k].id
                /\ execution_order = order_outcome.order
    /\ (validation_outcome # NoOutcome /\ HasCycle) =>
           ~validation_outcome.is_valid

\* Task 1 depends on the unregistered task 3 and on task 2, task 2 on
\* task 1: the order raised and the validation is not valid.
C30_Witness ==
    /\ Len(tasks) = 2
    /\ tasks[1].dependencies = << 3, 2 >>
    /\ tasks[2].dependencies = << 1 >>
    /\ order_outcome # NoOutcome
    /\ order_outcome.raised
    /\ validation_outcome # NoOutcome
    /\ ~validation_outcome.is_valid

\* Task 1 depends on task 2 and both on the unregistered task 3: the order
\* is returned with task 2 first.
OrderReturnedWithIgnoredDependency ==
    /\ Len(tasks) = 2
    /\ tasks[1].dependencies = << 2, 3 >>
    /\ tasks[2].dependencies = << 3 >>
    /\ order_outcome # NoOutcome
    /\ order_outcome.returned
    /\ order_outcome.order = << 2, 1 >>

====
